---- MODULE Spec2Model ----
(***************************************************************************)
(* Model of server/models/Chapter.js: the Chapter collection, the static   *)
(* methods syncContent, getBySlug and addBookmark of ChapterClass, and the *)
(* Book and Purchase collections they read and write.                      *)
(***************************************************************************)
EXTENDS Integers, Sequences, FiniteSets, TLC

VARIABLES
  books,      \* Book collection: the ids of the books that exist
  chapters,   \* Chapter collection: a set of chapter documents
  purchases,  \* Purchase collection: <<userId, bookId>> -> bookmarks array
  job,        \* one record per concurrent syncContent call (its locals)
  ret         \* what the call that completed last was given and returned

vars == <<books, chapters, purchases, job, ret>>

----------------------------------------------------------------------------
\* Bounds of the model.

MaxChapters == 2      \* documents the Chapter collection may hold
MaxPathLen == 3       \* length of the generated source paths
MaxCalls == 2         \* calls the concurrent jobs make between them

BookIds == {1, 2}
UserIds == {"u1", "u2"}
Titles == {"t1", "t2"}
Jobs == {1, 2}

\* Values JavaScript has and TLA+ has not.  A lookup that finds nothing is
\* the empty set, an attribute that is not given is no field of its record.
NoUser == "undefined"
NaN == -1
NoMatch == <<>>

----------------------------------------------------------------------------
\* Source paths are strings, modelled as sequences of characters.

Digits == {"0", "1", "2", "3", "4", "5", "6", "7", "8", "9"}

DigitVal(ch) ==
  CASE ch = "0" -> 0 [] ch = "1" -> 1 [] ch = "2" -> 2 [] ch = "3" -> 3
    [] ch = "4" -> 4 [] ch = "5" -> 5 [] ch = "6" -> 6 [] ch = "7" -> 7
    [] ch = "8" -> 8 [] ch = "9" -> 9

IntroPath ==
  <<"i", "n", "t", "r", "o", "d", "u", "c", "t", "i", "o", "n", ".", "m", "d">>

\* path.match(/[0-9]+/): the leftmost, longest run of digits, or null.
RECURSIVE RunEnd(_, _)
RunEnd(path, i) ==
  IF i < Len(path) /\ path[i + 1] \in Digits THEN RunEnd(path, i + 1) ELSE i

Match(path) ==
  LET at == {i \in 1..Len(path) : path[i] \in Digits}
  IN IF at = {} THEN NoMatch
     ELSE LET first == CHOOSE i \in at : \A k \in at : i <= k
          IN SubSeq(path, first, RunEnd(path, first))

\* parseInt(s, 10) of what match returned: null reads as "null", no number.
RECURSIVE ParseDigits(_, _, _)
ParseDigits(s, i, acc) ==
  IF i > Len(s) \/ s[i] \notin Digits THEN acc
  ELSE ParseDigits(s, i + 1, 10 * acc + DigitVal(s[i]))

ParseInt(s) ==
  IF s = NoMatch \/ s[1] \notin Digits THEN NaN ELSE ParseDigits(s, 1, 0)

OrderNoIncrement(path) ==
  IF path = IntroPath THEN 1 ELSE ParseInt(Match(path))

\* syncContent, the order of a chapter from its path.
OrderOf(path) ==
  IF path = IntroPath THEN 1
  ELSE LET n == ParseInt(Match(path))
       IN IF n = NaN THEN NaN ELSE n + 1

----------------------------------------------------------------------------
\* Markdown.  A body is a sequence of blocks; level 0 is a paragraph and
\* level n > 0 a heading of that level.

Escaped(text) == <<"anchor", text>>

RenderBlock(b) ==
  IF b.level = 0 THEN [tag |-> "p", text |-> b.text]
  ELSE IF b.level = 2
    THEN [tag |-> "a.section-anchor h2", name |-> Escaped(b.text), text |-> b.text]
  ELSE IF b.level = 4
    THEN [tag |-> "a h4", name |-> Escaped(b.text), text |-> b.text]
  ELSE [tag |-> "h", level |-> b.level, text |-> b.text]

markdownToHtml(content) ==
  [i \in 1..Len(content) |-> RenderBlock(content[i])]

getSections(content) ==
  LET H2(b) == b.level = 2
      S(b) == [text |-> b.text, level |-> b.level, escapedText |-> Escaped(b.text)]
      picked == SelectSeq(content, H2)
  IN [i \in 1..Len(picked) |-> S(picked[i])]

\* marked(he.decode(excerpt)): the empty string renders to the empty string.
RenderExcerpt(excerpt) ==
  IF excerpt = "" THEN <<>> ELSE <<"p", excerpt>>

----------------------------------------------------------------------------
\* The payloads of syncContent: data.attributes, data.body and data.path.

Variants == {0, 1}

Body(v) ==
  IF v = 0 THEN <<[level |-> 0, text |-> "p0"]>>
  ELSE <<[level |-> 2, text |-> "s" \o ToString(v)],
         [level |-> (v % 2) * 4, text |-> "x" \o ToString(v)],
         [level |-> 2, text |-> "z"]>>

\* Variant 0 is a file whose front matter holds the title alone.
Attributes(title, v) ==
  IF v = 0
  THEN [title |-> title]
  ELSE [title |-> title, excerpt |-> "e" \o ToString(v), isFree |-> (v % 2 = 1),
        seoTitle |-> "st" \o ToString(v), seoDescription |-> "sd" \o ToString(v)]

Data(title, v, path) ==
  [attributes |-> Attributes(title, v), body |-> Body(v), path |-> path]

\* const { title, excerpt = '', isFree = false, ... } = data.attributes
Attr(data, name, default) ==
  IF name \in DOMAIN data.attributes THEN data.attributes[name] ELSE default

----------------------------------------------------------------------------
\* The Chapter collection.

\* this.findOne({ bookId: book.id, githubFilePath: path }): the documents
\* found, none or one.
FindByPath(chs, bookId, path) ==
  {c \in chs : c.bookId = bookId /\ c.githubFilePath = path}

\* generateSlug(Model, title, { bookId }) of utils/slugify: the slug of the
\* title, and if a chapter of the book has it, the first of slug-1, slug-2,
\* ... that none has.  A slug is the title's slug and that counter.
Taken(chs, bookId, slug) ==
  \E c \in chs : c.bookId = bookId /\ c.slug = slug

RECURSIVE createUniqueSlug(_, _, _, _)
createUniqueSlug(chs, base, count, bookId) ==
  IF ~Taken(chs, bookId, [base |-> base, n |-> count])
  THEN [base |-> base, n |-> count]
  ELSE createUniqueSlug(chs, base, count + 1, bookId)

generateSlug(chs, title, bookId) ==
  IF ~Taken(chs, bookId, [base |-> title, n |-> 0])
  THEN [base |-> title, n |-> 0]
  ELSE createUniqueSlug(chs, title, 1, bookId)

\* new Date(): time is counted in the documents created so far.
Now(chs) == Cardinality(chs) + 1

\* The document syncContent hands to this.create.
NewDoc(chs, bookId, data, slug) ==
  [_id |-> Cardinality(chs) + 1,
   bookId |-> bookId,
   githubFilePath |-> data.path,
   title |-> data.attributes.title,
   slug |-> slug,
   isFree |-> Attr(data, "isFree", FALSE),
   content |-> data.body,
   htmlContent |-> markdownToHtml(data.body),
   sections |-> getSections(data.body),
   excerpt |-> RenderExcerpt(Attr(data, "excerpt", "")),
   order |-> OrderOf(data.path),
   seoTitle |-> Attr(data, "seoTitle", ""),
   seoDescription |-> Attr(data, "seoDescription", ""),
   createdAt |-> Now(chs)]

ModifierNoIsFree(data) ==
  [content |-> data.body,
   htmlContent |-> markdownToHtml(data.body),
   sections |-> getSections(data.body),
   excerpt |-> RenderExcerpt(Attr(data, "excerpt", "")),
   order |-> OrderOf(data.path),
   seoTitle |-> Attr(data, "seoTitle", ""),
   seoDescription |-> Attr(data, "seoDescription", "")]

\* The modifier syncContent hands to this.updateOne.
Modifier(data) ==
  [content |-> data.body,
   htmlContent |-> markdownToHtml(data.body),
   sections |-> getSections(data.body),
   excerpt |-> RenderExcerpt(Attr(data, "excerpt", "")),
   isFree |-> Attr(data, "isFree", FALSE),
   order |-> OrderOf(data.path),
   seoTitle |-> Attr(data, "seoTitle", ""),
   seoDescription |-> Attr(data, "seoDescription", "")]

TitleChangedAlways(data, chapter) == TRUE

\* if (title !== chapter.title)
TitleChanged(data, chapter) == data.attributes.title # chapter.title

\* modifier.title = title; modifier.slug = await generateSlug(...)
WithTitle(modifier, title, slug) ==
  [title |-> title, slug |-> slug] @@ modifier

\* { $set: modifier } on one document.
SetFields(doc, modifier) ==
  [f \in DOMAIN doc |-> IF f \in DOMAIN modifier THEN modifier[f] ELSE doc[f]]

\* order: { type: Number, required: true }: NaN is no Number to mongoose.
ValidOrder(order) == order # NaN

\* mongoSchema.index({ bookId: 1, slug: 1 }, { unique: true })
SlugIndexOk(chs, doc) ==
  \A c \in chs : c._id # doc._id => ~(c.bookId = doc.bookId /\ c.slug = doc.slug)

PathIndexMissing(chs, doc) == TRUE

\* mongoSchema.index({ bookId: 1, githubFilePath: 1 }, { unique: true })
PathIndexOk(chs, doc) ==
  \A c \in chs :
    c._id # doc._id =>
      ~(c.bookId = doc.bookId /\ c.githubFilePath = doc.githubFilePath)

\* this.create(doc): the collection afterwards, and the error if it threw.
Create(chs, doc) ==
  IF ~ValidOrder(doc.order)
  THEN [error |-> "ValidationError", chs |-> chs]
  ELSE IF ~(SlugIndexOk(chs, doc) /\ PathIndexOk(chs, doc))
  THEN [error |-> "E11000 duplicate key", chs |-> chs]
  ELSE [error |-> "", chs |-> chs \cup {doc}]

\* this.updateOne({ _id }, { $set: modifier })
UpdateOne(chs, id, modifier) ==
  LET old == {c \in chs : c._id = id}
      new == {SetFields(c, modifier) : c \in old}
  IN IF ~ValidOrder(modifier.order)
     THEN [error |-> "CastError", chs |-> chs]
     ELSE IF \E d \in new : ~(SlugIndexOk(chs, d) /\ PathIndexOk(chs, d))
     THEN [error |-> "E11000 duplicate key", chs |-> chs]
     ELSE [error |-> "", chs |-> (chs \ old) \cup new]

\* syncContent({ book, data }) run from its first line to its last with no
\* other call in between.
syncContent(chs, bookId, data) ==
  LET found == FindByPath(chs, bookId, data.path)
      title == data.attributes.title
  IN IF found = {}
     THEN Create(chs, NewDoc(chs, bookId, data, generateSlug(chs, title, bookId)))
     ELSE LET chapter == CHOOSE c \in found : TRUE
          IN UpdateOne(chs, chapter._id,
               IF TitleChanged(data, chapter)
               THEN WithTitle(Modifier(data), title,
                              generateSlug(chs, title, chapter.bookId))
               ELSE Modifier(data))

----------------------------------------------------------------------------
\* Paths: introduction.md and every string of at most MaxPathLen characters
\* of a small alphabet.

PathChars == {"c", "0", "2"}

RECURSIVE Strings(_)
Strings(n) ==
  IF n = 0 THEN {<<>>}
  ELSE LET shorter == Strings(n - 1)
       IN shorter \cup {Append(s, ch) : s \in {t \in shorter : Len(t) = n - 1},
                                        ch \in PathChars}

Paths == {IntroPath} \cup (Strings(MaxPathLen) \ {<<>>})

\* What the calls of SpecSeq are given: book 1 has three source files, one
\* of a path with no number in it, and book 2 has one.
SeqCalls ==
  {<<1, Data(t, v, p)>> : t \in Titles, v \in Variants,
                          p \in {IntroPath, <<"c", "0", "2">>, <<"c">>}}
    \cup {<<2, Data(t, v, IntroPath)>> : t \in Titles, v \in Variants}

\* What the calls of SpecOrder are given.
OrderData == {Data("t1", v, p) : v \in Variants, p \in Paths}

----------------------------------------------------------------------------
\* The calls.

IdleJob == [pc |-> "idle", calls |-> 0]

Init ==
  /\ books = BookIds
  /\ chapters = {}
  /\ purchases = <<>>
  /\ job = [j \in Jobs |-> IdleJob]
  /\ ret = [op |-> "none"]

\* One whole call of syncContent, no other call running.
SyncCall(bookId, data, cap) ==
  LET found == FindByPath(chapters, bookId, data.path)
      res == syncContent(chapters, bookId, data)
  IN /\ found # {} \/ Cardinality(chapters) < cap
     /\ chapters' = res.chs
     /\ ret' = [op |-> "syncContent", bookId |-> bookId, data |-> data,
                found |-> found, error |-> res.error,
                again |-> /\ ret.op = "syncContent"
                          /\ ret.bookId = bookId
                          /\ ret.data = data]
     /\ UNCHANGED <<books, purchases, job>>

NextSeq == \E call \in SeqCalls : SyncCall(call[1], call[2], MaxChapters)

SpecSeq == Init /\ [][NextSeq]_vars

\* The order of a chapter depends on its path alone: SpecOrder syncs one
\* chapter at a time, creating it and syncing it again.
NextOrder == \E d \in OrderData : SyncCall(1, d, 1)

SpecOrder == Init /\ [][NextOrder]_vars

----------------------------------------------------------------------------
\* Concurrent calls of syncContent.  Each await of the method ends a step:
\* another call may run between the lookup, the slug query and the write.

SyncData == {Data(t, v, p) : t \in Titles, v \in Variants,
                             p \in {IntroPath, <<"c", "0", "2">>}}

\* The concurrent jobs sync one book; the other may hold a chapter already.
SyncBooks == {1}

Running(j) == job[j].pc \in {"found", "slugged"}

\* The calls that are on their way to this.create.
Creating == {j \in Jobs : Running(j) /\ job[j].found = {}}

\* const chapter = await this.findOne({ bookId: book.id, githubFilePath: path })
SyncFind(j, bookId, data) ==
  LET found == FindByPath(chapters, bookId, data.path)
      others == {k \in Jobs \ {j} : Running(k)}
  IN /\ ~Running(j)
     /\ job[1].calls + job[2].calls < MaxCalls
     /\ found # {} \/ Cardinality(chapters) + Cardinality(Creating) < MaxChapters
     /\ job' = [k \in Jobs |->
                 IF k = j
                 THEN [pc |-> "found", calls |-> job[j].calls + 1,
                       bookId |-> bookId, data |-> data,
                       found |-> found, overlap |-> others # {}]
                 ELSE IF k \in others THEN [job[k] EXCEPT !.overlap = TRUE]
                 ELSE job[k]]
     /\ UNCHANGED <<books, chapters, purchases, ret>>

\* Whether the call goes through generateSlug before it writes.
NeedsSlug(r) ==
  \/ r.found = {}
  \/ \E chapter \in r.found : TitleChanged(r.data, chapter)

\* const slug = await generateSlug(this, title, { bookId: ... })
SyncSlug(j) ==
  LET r == job[j]
  IN /\ r.pc = "found"
     /\ NeedsSlug(r)
     /\ job' = [job EXCEPT ![j] =
                 [slug |-> generateSlug(chapters, r.data.attributes.title, r.bookId)]
                 @@ [r EXCEPT !.pc = "slugged"]]
     /\ UNCHANGED <<books, chapters, purchases, ret>>

Finish(j, res) ==
  /\ chapters' = res.chs
  /\ job' = [job EXCEPT ![j] =
              [pc |-> "done", calls |-> job[j].calls, overlap |-> job[j].overlap,
               updated |-> {c._id : c \in job[j].found}, error |-> res.error]]
  /\ ret' = [op |-> "syncContent", bookId |-> job[j].bookId, data |-> job[j].data,
             found |-> job[j].found, error |-> res.error, again |-> FALSE]
  /\ UNCHANGED <<books, purchases>>

\* return this.create({ ... })
SyncCreate(j) ==
  LET r == job[j]
  IN /\ r.pc = "slugged"
     /\ r.found = {}
     /\ Finish(j, Create(chapters, NewDoc(chapters, r.bookId, r.data, r.slug)))

\* return this.updateOne({ _id: chapter._id }, { $set: modifier })
SyncUpdate(j) ==
  LET r == job[j]
  IN /\ Running(j)
     /\ r.found # {}
     /\ r.pc = "found" => ~NeedsSlug(r)
     /\ LET chapter == CHOOSE c \in r.found : TRUE
        IN Finish(j, UpdateOne(chapters, chapter._id,
                       IF r.pc = "slugged"
                       THEN WithTitle(Modifier(r.data), r.data.attributes.title, r.slug)
                       ELSE Modifier(r.data)))

NextSync ==
  \E j \in Jobs :
    \/ \E b \in SyncBooks, d \in SyncData : SyncFind(j, b, d)
    \/ SyncSlug(j)
    \/ SyncCreate(j)
    \/ SyncUpdate(j)

\* The collection the concurrent calls start from: empty, or one chapter
\* that an earlier call has synced.
SeedStores ==
  {{}} \cup {syncContent({}, b, d).chs : b \in BookIds, d \in SyncData}

InitSync ==
  /\ books = BookIds
  /\ chapters \in SeedStores
  /\ purchases = <<>>
  /\ job = [j \in Jobs |-> IdleJob]
  /\ ret = [op |-> "none"]

SpecSync == InitSync /\ [][NextSync]_vars

----------------------------------------------------------------------------
\* Bookmarks and retrieval.

\* if (userId), if (!userId)
Truthy(userId) == userId # NoUser

\* this.findById(chapterId, 'bookId')
FindById(chs, chapterId) == {c \in chs : c._id = chapterId}

\* Book.findById(chapter.bookId, 'id')
BookById(bks, bookId) == {b \in bks : b = bookId}

\* Book.getBySlug({ slug: bookSlug, userId }) of models/Book: the book of
\* that slug, if there is one.
BookSlug(b) == "book-" \o ToString(b)

BookBySlug(bks, slug) == {b \in bks : BookSlug(b) = slug}

\* Purchase.findOne({ userId, bookId: book._id }, ...)
FindPurchase(pur, userId, bookId) ==
  {k \in DOMAIN pur : k = <<userId, bookId>>}

RemoveAt(seq, k) == SubSeq(seq, 1, k - 1) \o SubSeq(seq, k + 1, Len(seq))

\* purchase.bookmarks.forEach(b => { if (b.chapterId.equals(chapterId))
\* purchase.bookmarks.pull(b._id) }): forEach visits the indexes the array
\* had when it began, skipping those that are gone by then, and pull removes
\* from the array that is being visited.
RECURSIVE ForEachPull(_, _, _, _)
ForEachPull(bookmarks, k, len, chapterId) ==
  IF k > len THEN bookmarks
  ELSE IF k <= Len(bookmarks) /\ bookmarks[k].chapterId = chapterId
  THEN ForEachPull(RemoveAt(bookmarks, k), k + 1, len, chapterId)
  ELSE ForEachPull(bookmarks, k + 1, len, chapterId)

PullNone(bookmarks, chapterId) == bookmarks

PullAll(bookmarks, chapterId) == <<>>

Pulled(bookmarks, chapterId) ==
  ForEachPull(bookmarks, 1, Len(bookmarks), chapterId)

NoUserCheck(bks, chs, pur, a) ==
  IF FindById(chs, a.chapterId) = {} THEN "Chapter not found"
  ELSE LET chapter == CHOOSE c \in FindById(chs, a.chapterId) : TRUE
       IN IF BookById(bks, chapter.bookId) = {} THEN "Book not found"
          ELSE IF FindPurchase(pur, a.userId, chapter.bookId) = {}
          THEN "You have not bought this book."
          ELSE ""

\* addBookmark, the error it throws for its arguments, "" if it throws none.
AddBookmarkError(bks, chs, pur, a) ==
  IF ~Truthy(a.userId) THEN "User is required"
  ELSE IF FindById(chs, a.chapterId) = {} THEN "Chapter not found"
  ELSE LET chapter == CHOOSE c \in FindById(chs, a.chapterId) : TRUE
       IN IF BookById(bks, chapter.bookId) = {} THEN "Book not found"
          ELSE IF FindPurchase(pur, a.userId, chapter.bookId) = {}
          THEN "You have not bought this book."
          ELSE ""

\* addBookmark({ chapterId, hash, text, userId })
AddBookmark(a) ==
  LET error == AddBookmarkError(books, chapters, purchases, a)
  IN /\ ret' = [op |-> "addBookmark", args |-> a, error |-> error,
                replaced |-> /\ error = ""
                             /\ \E k \in DOMAIN purchases :
                                  /\ k[1] = a.userId
                                  /\ \E i \in 1..Len(purchases[k]) :
                                       purchases[k][i].chapterId = a.chapterId]
     /\ IF error # "" THEN UNCHANGED purchases
        ELSE LET chapter == CHOOSE c \in FindById(chapters, a.chapterId) : TRUE
                 key == <<a.userId, chapter.bookId>>
                 kept == Pulled(purchases[key], a.chapterId)
             IN purchases' =
                  [purchases EXCEPT ![key] =
                     Append(kept, [chapterId |-> a.chapterId,
                                   hash |-> a.hash, text |-> a.text])]
     /\ UNCHANGED <<books, chapters, job>>

\* chapter._id.equals(b.chapterId)
BookmarkMatches(chapter, b) == chapter._id = b.chapterId

\* ((purchase && purchase.bookmarks) || []).forEach(b => { if (...)
\* chapterObj.bookmark = b }): the last bookmark of the chapter, if any.
WithBookmark(obj, chapter, bookmarks) ==
  LET at == {k \in 1..Len(bookmarks) : BookmarkMatches(chapter, bookmarks[k])}
  IN IF at = {} THEN obj
     ELSE [bookmark |-> bookmarks[CHOOSE k \in at : \A m \in at : m <= k]] @@ obj

\* chapterObj.isPurchased = !!purchase || isAdmin: undefined, and so no
\* field, when there is no purchase and no isAdmin was given.
WithIsPurchased(obj, purchased, req) ==
  IF purchased THEN [isPurchased |-> TRUE] @@ obj
  ELSE IF "isAdmin" \in DOMAIN req THEN [isPurchased |-> req.isAdmin] @@ obj
  ELSE obj

Without(obj, field) == [f \in DOMAIN obj \ {field} |-> obj[f]]

KeepContent(obj, isPurchased) == obj

\* if (!isPurchased) { delete chapterObj.content; }
StripContent(obj, isPurchased) ==
  IF ~isPurchased THEN Without(obj, "content") ELSE obj

\* getBySlug({ bookSlug, chapterSlug, userId, isAdmin }): the error it
\* throws, or the object it returns.
getBySlug(bks, chs, pur, req) ==
  LET book == BookBySlug(bks, req.bookSlug)
      found == {c \in chs : c.bookId \in book /\ c.slug = req.chapterSlug}
  IN IF book = {} \/ found = {}
     THEN [error |-> "Not found"]
     ELSE LET chapter == CHOOSE c \in found : TRUE
              chapterObj == [book |-> chapter.bookId] @@ chapter
              purchase == FindPurchase(pur, req.userId, chapter.bookId)
              bookmarks == IF purchase = {} THEN <<>>
                           ELSE pur[<<req.userId, chapter.bookId>>]
              forUser ==
                IF Truthy(req.userId)
                THEN WithBookmark(WithIsPurchased(chapterObj, purchase # {}, req),
                                  chapter, bookmarks)
                ELSE chapterObj
              isPurchased ==
                \/ chapter.isFree
                \/ "isPurchased" \in DOMAIN forUser /\ forUser.isPurchased
          IN [error |-> "", result |-> StripContent(forUser, isPurchased)]

GetBySlug(req) ==
  /\ ret' = [op |-> "getBySlug", args |-> req] @@
            getBySlug(books, chapters, purchases, req)
  /\ UNCHANGED <<books, chapters, purchases, job>>

\* What the calls of Spec are given.
Marks == {<<"h1", "x1">>, <<"h2", "x2">>}

BookmarkArgs ==
  {[chapterId |-> c, hash |-> m[1], text |-> m[2], userId |-> u] :
     c \in 1..(MaxChapters + 1), m \in Marks, u \in UserIds}
    \cup {[chapterId |-> c, hash |-> "h1", text |-> "x1", userId |-> NoUser] :
            c \in {1, MaxChapters + 1}}

Requests ==
  LET plain == {[bookSlug |-> BookSlug(1), chapterSlug |-> [base |-> "t1", n |-> n],
                 userId |-> u] : n \in {0, 1}, u \in UserIds \cup {NoUser}}
  IN plain \cup {[isAdmin |-> TRUE] @@ r : r \in plain}
       \cup {[bookSlug |-> BookSlug(2), chapterSlug |-> [base |-> "t1", n |-> 0],
              userId |-> "u1"],
             [bookSlug |-> BookSlug(1), chapterSlug |-> [base |-> "t1", n |-> 0],
              userId |-> "u2", isAdmin |-> FALSE]}

ShopCalls ==
  {<<1, Data("t1", v, IntroPath)>> : v \in Variants}
    \cup {<<1, Data("t1", 0, <<"c", "0", "2">>)>>, <<2, Data("t1", 0, IntroPath)>>}

\* Book 2 is gone from the Book collection; its chapters are not, as nothing
\* deletes a chapter.  A purchase is of book 1, by one user or by both.
InitShop ==
  /\ books = {1}
  /\ chapters = {}
  /\ \E owners \in {{"u1"}, UserIds} :
       purchases = [k \in owners \X {1} |-> <<>>]
  /\ job = [j \in Jobs |-> IdleJob]
  /\ ret = [op |-> "none"]

Next ==
  \/ \E call \in ShopCalls : SyncCall(call[1], call[2], MaxChapters)
  \/ \E a \in BookmarkArgs : AddBookmark(a)
  \/ \E req \in Requests : GetBySlug(req)

Spec == InitShop /\ [][Next]_vars

----------------------------------------------------------------------------
\* Claims about one call of syncContent at a time.

\* C4: syncContent is idempotent: a call with the book and the payload of the
\* call right before it leaves the Chapter collection as that call left it.
C4_Idempotent ==
  [][(/\ ret.op = "syncContent"
      /\ ret'.op = "syncContent"
      /\ ret'.bookId = ret.bookId
      /\ ret'.data = ret.data) => chapters' = chapters]_vars

\* The second of two identical calls in a row has updated a chapter.
C4_Witness ==
  /\ ret.op = "syncContent"
  /\ ret.again
  /\ ret.found # {}
  /\ ret.error = ""
  /\ Cardinality(chapters) = 2

\* The digits path[i..j] read as a decimal number.
RECURSIVE Pow10(_)
Pow10(n) == IF n = 0 THEN 1 ELSE 10 * Pow10(n - 1)

RECURSIVE Decimal(_, _, _)
Decimal(path, i, j) ==
  IF i > j THEN 0
  ELSE DigitVal(path[i]) * Pow10(j - i) + Decimal(path, i + 1, j)

\* path[i..j] is the first integer embedded in the path.
FirstInteger(path, i, j) ==
  /\ i <= j
  /\ \A k \in 1..(i - 1) : path[k] \notin Digits
  /\ \A k \in i..j : path[k] \in Digits
  /\ j = Len(path) \/ path[j + 1] \notin Digits

\* C5: the order stored for a chapter is 1 for the path introduction.md and
\* for every other path the first integer embedded in it plus one.
C5_Order ==
  \A c \in chapters :
    LET path == c.githubFilePath
    IN IF path = IntroPath THEN c.order = 1
       ELSE \E i, j \in 1..Len(path) :
              /\ FirstInteger(path, i, j)
              /\ c.order = Decimal(path, i, j) + 1

\* A chapter of path "2c0" was created, then updated, and its order is 3.
C5_Witness ==
  /\ ret.op = "syncContent"
  /\ ret.found # {}
  /\ ret.error = ""
  /\ ret.data.path = <<"2", "c", "0">>
  /\ \E c \in chapters : c.githubFilePath = <<"2", "c", "0">> /\ c.order = 3

\* The value an attribute of the payload stands for once its default is in.
Given(data, name, default) ==
  IF \E n \in DOMAIN data.attributes : n = name
  THEN data.attributes[name] ELSE default

\* C8: a call that finds a chapter for (bookId, path) keeps its slug and title
\* when the payload's title is the stored one and replaces the title and
\* generates a new slug when it is not; it keeps bookId, githubFilePath,
\* createdAt and _id, creates and deletes no chapter, and sets the other
\* fields from the payload.
C8_UpdateFrame ==
  [][(/\ ret' # ret \/ chapters' # chapters
      /\ ret'.op = "syncContent"
      /\ ret'.found # {}) =>
       LET old == CHOOSE c \in ret'.found : TRUE
           data == ret'.data
           title == data.attributes.title
       IN /\ old \in chapters
          /\ {c._id : c \in chapters'} = {c._id : c \in chapters}
          /\ Cardinality(chapters') = Cardinality(chapters)
          /\ \E new \in chapters' :
               /\ new._id = old._id
               /\ new.bookId = old.bookId
               /\ new.githubFilePath = old.githubFilePath
               /\ new.createdAt = old.createdAt
               /\ title = old.title => new.title = old.title /\ new.slug = old.slug
               /\ title # old.title =>
                    /\ new.title = title
                    /\ new.slug # old.slug
                    /\ new.slug.base = title
                    /\ ~Taken(chapters, old.bookId, new.slug)
               /\ new.content = data.body
               /\ new.htmlContent = markdownToHtml(data.body)
               /\ new.sections = getSections(data.body)
               /\ new.excerpt = RenderExcerpt(Given(data, "excerpt", ""))
               /\ new.isFree = Given(data, "isFree", FALSE)
               /\ new.order = OrderOf(data.path)
               /\ new.seoTitle = Given(data, "seoTitle", "")
               /\ new.seoDescription = Given(data, "seoDescription", "")]_vars

\* A call has given a chapter a new title, and the slug of that title was
\* taken by another chapter of the book.
C8_Witness ==
  /\ ret.op = "syncContent"
  /\ ret.found # {}
  /\ ret.error = ""
  /\ \E old \in ret.found, new \in chapters :
       /\ new._id = old._id
       /\ old.title # ret.data.attributes.title
       /\ new.title = ret.data.attributes.title
       /\ new.slug.n = 1
       /\ new.isFree # old.isFree

----------------------------------------------------------------------------
\* Claims about concurrent calls of syncContent.

NoDuplicates ==
  \A c, d \in chapters :
    (c._id # d._id /\ c.bookId = d.bookId) =>
      (c.slug # d.slug /\ c.githubFilePath # d.githubFilePath)

\* The write job j is about to make would give a book two chapters of one
\* slug or of one path.
WouldDuplicate(j) ==
  LET r == job[j]
  IN IF r.found = {}
     THEN \E c \in chapters :
            /\ c.bookId = r.bookId
            /\ c.githubFilePath = r.data.path \/ c.slug = r.slug
     ELSE /\ r.pc = "slugged"
          /\ \E c \in chapters, old \in r.found :
               c._id # old._id /\ c.bookId = old.bookId /\ c.slug = r.slug

\* C7: in every interleaving of syncContent calls no two chapters of a book
\* share a slug or a githubFilePath, and a write that would make two share
\* one fails, the failure is the call's result and the collection is unchanged.
C7_Unique ==
  /\ []NoDuplicates
  /\ [][\A j \in Jobs :
          (Running(j) /\ job'[j].pc = "done") =>
            /\ WouldDuplicate(j) => job'[j].error = "E11000 duplicate key"
            /\ job'[j].error # "" => (chapters' = chapters /\ ret'.error = job'[j].error)]_vars

\* Two calls raced to create the chapter of one path; the second create was
\* refused and the collection holds that chapter once.
C7_Witness ==
  /\ \A j \in Jobs : job[j].pc = "done" /\ job[j].updated = {}
  /\ \E j \in Jobs : job[j].error = "E11000 duplicate key"
  /\ \E j \in Jobs : job[j].error = ""
  /\ ret.error = "E11000 duplicate key"
  /\ Cardinality({c \in chapters : c.bookId = 1 /\ c.githubFilePath = ret.data.path}) = 1

\* Every synced field of chapter c is the one the payload gives.
AllFrom(c, data) ==
  /\ c.title = data.attributes.title
  /\ c.slug.base = data.attributes.title
  /\ c.content = data.body
  /\ c.htmlContent = markdownToHtml(data.body)
  /\ c.sections = getSections(data.body)
  /\ c.excerpt = RenderExcerpt(Given(data, "excerpt", ""))
  /\ c.isFree = Given(data, "isFree", FALSE)
  /\ c.order = OrderOf(data.path)
  /\ c.seoTitle = Given(data, "seoTitle", "")
  /\ c.seoDescription = Given(data, "seoDescription", "")

\* C9: when two calls for the same existing chapter have run concurrently and
\* both have completed, every stored field of the chapter is the one derived
\* from the payload of the call whose update was applied last.
C9_LastWriteWins ==
  (/\ \A j \in Jobs : job[j].pc = "done" /\ job[j].error = "" /\ job[j].overlap
   /\ job[1].updated # {}
   /\ job[1].updated = job[2].updated)
  => \A c \in chapters : c._id \in job[1].updated => AllFrom(c, ret.data)

----------------------------------------------------------------------------
\* Claims about getBySlug and addBookmark.

\* The stored chapter a returned object was made from.
Stored(obj) == CHOOSE c \in chapters : c._id = obj._id

Owns(userId, bookId) ==
  userId # NoUser /\ \E k \in DOMAIN purchases : k = <<userId, bookId>>

AdminRequest(req) ==
  (\E f \in DOMAIN req : f = "isAdmin") /\ req.isAdmin

Returned == ret.op = "getBySlug" /\ ret.error = ""

\* C1: a getBySlug that succeeds for a chapter that is not free, a user (if
\* any) who holds no purchase of its book and no admin flag returns an object
\* with no content field; the excerpt and the other fields are there.
C1_NoContent ==
  Returned =>
    LET c == Stored(ret.result)
    IN (~c.isFree /\ ~Owns(ret.args.userId, c.bookId) /\ ~AdminRequest(ret.args)) =>
         /\ \A f \in DOMAIN ret.result : f # "content"
         /\ \A f \in DOMAIN c \ {"content"} :
              (\E g \in DOMAIN ret.result : g = f) /\ ret.result[f] = c[f]

\* A user with no purchase, isAdmin false, asked for a chapter that is not
\* free and got it without its content.
C1_Witness ==
  /\ Returned
  /\ ret.args.userId = "u2"
  /\ ~Owns("u2", 1)
  /\ ~Stored(ret.result).isFree
  /\ \E f \in DOMAIN ret.args : f = "isAdmin"
  /\ \A f \in DOMAIN ret.result : f # "content"
  /\ ret.result.excerpt = Stored(ret.result).excerpt

\* C2: a getBySlug that succeeds for a free chapter, or for a user who holds
\* a purchase of its book, or with the admin flag, returns the content,
\* whether or not a user id is given.
C2_Content ==
  Returned =>
    LET c == Stored(ret.result)
    IN (c.isFree \/ Owns(ret.args.userId, c.bookId) \/ AdminRequest(ret.args)) =>
         /\ \E f \in DOMAIN ret.result : f = "content"
         /\ ret.result.content = c.content

\* C3: every purchase holds at most one bookmark of any chapter.
C3_OneBookmarkPerChapter ==
  \A k \in DOMAIN purchases :
    \A i, j \in 1..Len(purchases[k]) :
      i # j => purchases[k][i].chapterId # purchases[k][j].chapterId

\* addBookmark has replaced the bookmark of one of two bookmarked chapters.
C3_Witness ==
  /\ ret.op = "addBookmark"
  /\ ret.replaced
  /\ \E k \in DOMAIN purchases :
       /\ k[1] = ret.args.userId
       /\ Len(purchases[k]) = 2
       /\ purchases[k][2].chapterId = ret.args.chapterId
       /\ purchases[k][2].hash = ret.args.hash

\* C6: addBookmark fails with 'User is required' when no user id is given,
\* else with 'Chapter not found' when no chapter has the id, else with 'Book
\* not found' when the chapter's book does not exist, else with 'You have not
\* bought this book.' when the user has no purchase of the book, and a failed
\* call changes no bookmarks; in no other case does it fail.
C6_Errors ==
  [][ret'.op = "addBookmark" =>
       LET a == ret'.args
           ch == {c \in chapters : c._id = a.chapterId}
           noUser == a.userId = NoUser
           noChapter == ch = {}
           noBook == \E c \in ch : c.bookId \notin books
           noPurchase == \E c \in ch : <<a.userId, c.bookId>> \notin DOMAIN purchases
       IN /\ noUser => ret'.error = "User is required"
          /\ (~noUser /\ noChapter) => ret'.error = "Chapter not found"
          /\ (~noUser /\ ~noChapter /\ noBook) => ret'.error = "Book not found"
          /\ (~noUser /\ ~noChapter /\ ~noBook /\ noPurchase) =>
               ret'.error = "You have not bought this book."
          /\ (~noUser /\ ~noChapter /\ ~noBook /\ ~noPurchase) =>
               /\ ret'.error = ""
               /\ \E c \in ch :
                    LET bookmarks == purchases'[<<a.userId, c.bookId>>]
                    IN bookmarks[Len(bookmarks)] =
                         [chapterId |-> a.chapterId, hash |-> a.hash, text |-> a.text]
          /\ ret'.error # "" => purchases' = purchases]_vars

\* A user who has no purchase asked to bookmark a chapter of the book that
\* is gone: the missing book is reported, not the missing purchase, and the
\* bookmarks another call has stored are still there.
C6_Witness ==
  /\ ret.op = "addBookmark"
  /\ ret.error = "Book not found"
  /\ ret.args.userId = "u2"
  /\ DOMAIN purchases = {<<"u1", 1>>}
  /\ Len(purchases[<<"u1", 1>>]) = 1

\* The bookmarks of a purchase that are not of the chapter.
NotOf(bookmarks, chapterId) ==
  LET Other(b) == b.chapterId # chapterId
  IN SelectSeq(bookmarks, Other)

\* C10: a getBySlug for chapter c and user u that follows a successful
\* addBookmark of u for c returns the bookmark just added; that addBookmark
\* leaves u's bookmarks of other chapters and the other purchases as they
\* were; and getBySlug returns no bookmark when no user id is given or the
\* user's purchase holds no bookmark of the chapter.
C10_RoundTrip ==
  /\ [][/\ (/\ ret.op = "addBookmark" /\ ret.error = ""
            /\ ret'.op = "getBySlug" /\ ret'.error = ""
            /\ ret'.result._id = ret.args.chapterId
            /\ ret'.args.userId = ret.args.userId) =>
              /\ \E f \in DOMAIN ret'.result : f = "bookmark"
              /\ ret'.result.bookmark =
                   [chapterId |-> ret.args.chapterId, hash |-> ret.args.hash,
                    text |-> ret.args.text]
        /\ (ret'.op = "addBookmark" /\ ret'.error = "") =>
              /\ DOMAIN purchases' = DOMAIN purchases
              /\ \A k \in DOMAIN purchases :
                   IF k[1] = ret'.args.userId
                        /\ \E c \in chapters : c._id = ret'.args.chapterId /\ c.bookId = k[2]
                   THEN NotOf(purchases'[k], ret'.args.chapterId)
                          = NotOf(purchases[k], ret'.args.chapterId)
                   ELSE purchases'[k] = purchases[k]]_vars
  /\ [](Returned =>
          LET c == Stored(ret.result)
              u == ret.args.userId
          IN (\/ u = NoUser
              \/ ~Owns(u, c.bookId)
              \/ \A i \in 1..Len(purchases[<<u, c.bookId>>]) :
                   purchases[<<u, c.bookId>>][i].chapterId # c._id) =>
               \A f \in DOMAIN ret.result : f # "bookmark")

\* u1 has replaced the bookmark of a chapter while holding a bookmark of
\* another chapter and while u2 holds bookmarks too, and getBySlug for that
\* chapter gives u1 the new bookmark.
C10_Witness ==
  /\ ret.op = "addBookmark"
  /\ ret.replaced
  /\ ret.args.userId = "u1"
  /\ DOMAIN purchases = {<<"u1", 1>>, <<"u2", 1>>}
  /\ Len(purchases[<<"u1", 1>>]) = 2
  /\ Len(purchases[<<"u2", 1>>]) = 2
  /\ \E req \in Requests :
       LET got == getBySlug(books, chapters, purchases, req)
       IN /\ req.userId = "u1"
          /\ got.error = ""
          /\ got.result._id = ret.args.chapterId
          /\ got.result.bookmark.hash = ret.args.hash

====
